---- MODULE Spec2Model ----
(***************************************************************************)
(* Weekly compilation pipeline of shared-infra/weekly-compilation.py:      *)
(* checkpoint load / change detection / save, the six collectors, the      *)
(* exclusivity validator, create_compilation, cleanup_old_compilations     *)
(* and main, as one state machine over an abstract filesystem; and main of *)
(* verify_jsons.py, which validates and backs up the copilot JSON files.   *)
(***************************************************************************)
EXTENDS Integers, Sequences, FiniteSets, TLC

VARIABLES
    pc,              \* position of main(): "idle" between runs, else the next step
    now,             \* wall clock, in days
    runNo,           \* number of runs started so far
    runs,            \* runs the model may still start
    edits,           \* file edits the environment may still make
    ticks,           \* clock advances the environment may still make
    faults,          \* I/O errors and kills that may still happen
    fs,              \* the files on disk: path -> [c: content, mt: modification day]
    ckptFile,        \* content of last-run-checkpoint.json
    tmpFile,         \* content of last-run-checkpoint.tmp
    dbRows,          \* table compilations: the set of its rows
    manifestFiles,   \* parsed content of each week-<id>/manifest.json
    auditFiles,      \* parsed content of each week-<id>/audit-<date>.json, by path
    checkpoint,      \* self.checkpoint
    new_checkpoint,  \* self.new_checkpoint
    data_sources,    \* the dict built by collect_framework_data
    manifest,        \* the manifest dict under construction in create_compilation
    cursor,          \* index of the source create_compilation handles next
    totals,          \* [files, size]: total_files and total_size of create_compilation
    checksum,        \* compilation_checksum
    old_compilations,\* the week ids cleanup_old_compilations still has to handle, in order
    audit_log,       \* SecurityManager.audit_log
    run,             \* observations of the run in progress
    runlog,          \* observations of the last two finished runs
    changed,         \* user files edited since the last run ended
    json_files,      \* verify_jsons.JSON_FILES: what json.load and validate make of each
    vpc,             \* position of verify_jsons.main
    jf,              \* index in JSON_FILES of the file verify_jsons.main handles
    backups,         \* indices of the files that have a backup copy
    audit_lines,     \* lines verify_jsons appended to audit.log
    exit_code        \* exit status of verify_jsons, None while it runs

vars == <<pc, now, runNo, runs, edits, ticks, faults, fs, ckptFile, tmpFile, dbRows,
          manifestFiles, auditFiles, checkpoint, new_checkpoint, data_sources, manifest,
          cursor, totals, checksum, old_compilations, audit_log, run, runlog,
          changed, json_files, vpc, jf, backups, audit_lines, exit_code>>

pipeline == <<pc, now, runNo, runs, edits, ticks, faults, fs, ckptFile, tmpFile, dbRows,
              manifestFiles, auditFiles, checkpoint, new_checkpoint, data_sources,
              manifest, cursor, totals, checksum, old_compilations, audit_log, run,
              runlog, changed>>
verifier == <<json_files, vpc, jf, backups, audit_lines, exit_code>>

---------------------------------------------------------------------------
(* Bounds of the model *)
MaxRuns == 3
FaultyRuns == 2
RetryRuns == 4
RetryEdits == 2
MaxEdits == 1
MaxTicks == 1
MaxFaults == 1
MaxContent == 2
MaxJsonFiles == 3
UnreadableRuns == 2
UnreadableEdits == 2
PruneRuns == 3
PruneTicks == 3
FaultyPruneTicks == 2
OrderBuilds == 2

(* Program constants *)
FRAMEWORK_SPACE == "HUMAN-AI-FRAMEWORK"
WEEKS_TO_RETAIN == 12
LogWindowDays == 7
HAF == "human-ai-framework"
SourceNames == <<"copilot_logs", "conversation_data", "framework_configs",
                 "weekly_metrics", "exclusive_content", "objectives_sync">>

(* Encoding of file contents and hashes as integers.  User files hold      *)
(* 0..MaxContent, 0 being a file with neither the tenant marker nor valid  *)
(* JSON; an objectives file rewritten with spaceName holds InjectBase + c; *)
(* files the pipeline generates hold GenBase + 8 * runNo + kind.           *)
InjectBase == 50
GenBase == 100
ShaBase == 1000
Sha16Base == 5000
ChecksumFailed == -1
HashFailed == -2
None == -9
Unreadable == 9

(* Unreadable stands for a file that stat() finds and open() refuses.      *)
Contents == 0 .. MaxContent
Gen(r, kind) == GenBase + 8 * r + kind
Size(c) == (c % 10) + 1
HasMarker(c) == c # 0
ValidJson(c) == c # 0 /\ c # Unreadable
HasSpaceName(c) == c >= InjectBase /\ c < GenBase

Range(f) == {f[x] : x \in DOMAIN f}
EmptyMap == [p \in {} |-> 0]
Put(f, k, v) == [x \in DOMAIN f \cup {k} |-> IF x = k THEN v ELSE f[x]]
Drop(f, ks) == [x \in DOMAIN f \ ks |-> f[x]]

RECURSIVE SumSizes(_)
SumSizes(S) ==
    IF S = {} THEN 0
    ELSE LET e == CHOOSE x \in S : TRUE IN e.size + SumSizes(S \ {e})

---------------------------------------------------------------------------
(* Paths are tuples of path elements, relative to the working directory    *)
(* ("~" is the home directory).                                            *)
L1 == <<"logs", "a.log">>
L2 == <<"logs", "Cross-Space.log">>
V1 == <<"conversation-1.json">>
F1 == <<HAF, "cfg.json">>
O1 == <<"~", "Perplexity", "spaces", "s1", "objectives.json">>
O2 == <<"~", "Perplexity", "spaces", "s2", "objectives.json">>
UserFiles == {L1, L2, V1, F1, O1, O2}
X1 == <<"framework-exclusive", "cfg.json">>
X2 == <<"framework-exclusive", "notes.md">>

WeekOf(day) == day \div 7
WeekDir(w) == "week-" \o ToString(w)
DbPath == <<HAF, "compilations.db">>
BundleDir(w) == <<HAF, WeekDir(w)>>
ManifestPath(w) == <<HAF, WeekDir(w), "manifest.json">>
AuditPath(w, day) == <<HAF, WeekDir(w), "audit-" \o ToString(day) \o ".json">>
Name(p) == p[Len(p)]
Under(p, dir) == Len(p) > Len(dir) /\ SubSeq(p, 1, Len(dir)) = dir
File(c, mt) == [c |-> c, mt |-> mt]

---------------------------------------------------------------------------
(* Checkpoint documents.  shape tells what json.load makes of the file.    *)
CkptShapes == {"missing", "unparsable", "partial", "non_object", "no_files",
               "files_unsized", "files_sized", "ok"}
CkptDoc(shape, files, ts, w) ==
    [shape |-> shape, files |-> files, timestamp |-> ts, week_id |-> w]
NoCkptFile == CkptDoc("missing", EmptyMap, None, None)
Damaged(shape) == CkptDoc(shape, EmptyMap, None, None)
EmptyCheckpoint == CkptDoc("ok", EmptyMap, None, None)

load_checkpoint_alt(file) ==
    IF file.shape \in {"ok", "no_files", "files_sized", "non_object"}
    THEN file ELSE EmptyCheckpoint

load_checkpoint(file) ==
    CASE file.shape = "missing" -> EmptyCheckpoint                 \* FileNotFoundError
      [] file.shape \in {"unparsable", "partial"} -> EmptyCheckpoint \* JSONDecodeError
      [] file.shape = "non_object" -> EmptyCheckpoint   \* .get raises inside the try
      [] file.shape = "files_unsized" -> EmptyCheckpoint \* len() raises inside the try
      [] OTHER -> file                                   \* returned as parsed

(* self.checkpoint.get("files", {}).get(file_str): the stored hash, None   *)
(* when absent, "raise" when the value is not a mapping.                   *)
StoredLookup(ck, p) ==
    CASE ck.shape \in {"files_sized", "non_object"} -> [raise |-> TRUE, value |-> None]
      [] ck.shape = "no_files" -> [raise |-> FALSE, value |-> None]
      [] OTHER -> [raise |-> FALSE,
                   value |-> IF p \in DOMAIN ck.files THEN ck.files[p] ELSE None]

Readable(f, p) == p \in DOMAIN f /\ f[p].c # Unreadable

calculate_file_checksum(f, p) ==
    IF Readable(f, p) THEN ShaBase + f[p].c ELSE ChecksumFailed

calculate_file_hash(f, p) ==
    IF Readable(f, p) THEN Sha16Base + f[p].c ELSE HashFailed

(* One call of _should_process_file: the result and the in-progress        *)
(* checkpoint after it.                                                    *)
should_process_file_alt(ck, nck, f, p) ==
    LET cur == calculate_file_checksum(f, p)
        prev == StoredLookup(ck, p)
    IN  IF prev.raise THEN [res |-> "raise", nck |-> nck, prev |-> None, cur |-> cur]
        ELSE IF prev.value # None
             THEN [res |-> "false", nck |-> nck, prev |-> prev.value, cur |-> cur]
             ELSE [res |-> "true", nck |-> [nck EXCEPT !.files = Put(@, p, cur)],
                   prev |-> prev.value, cur |-> cur]

should_process_file_touch(ck, nck, f, p) ==
    LET cur == calculate_file_checksum(f, p)
        prev == StoredLookup(ck, p)
        rec == [nck EXCEPT !.files = Put(@, p, cur)]
    IN  IF prev.raise THEN [res |-> "raise", nck |-> nck, prev |-> None, cur |-> cur]
        ELSE IF prev.value = cur
             THEN [res |-> "false", nck |-> rec, prev |-> prev.value, cur |-> cur]
             ELSE [res |-> "true", nck |-> rec, prev |-> prev.value, cur |-> cur]

should_process_file(ck, nck, f, p) ==
    LET cur == calculate_file_checksum(f, p)
        prev == StoredLookup(ck, p)
    IN  IF prev.raise THEN [res |-> "raise", nck |-> nck, prev |-> None, cur |-> cur]
        ELSE IF prev.value = cur
             THEN [res |-> "false", nck |-> nck, prev |-> prev.value, cur |-> cur]
             ELSE [res |-> "true", nck |-> [nck EXCEPT !.files = Put(@, p, cur)],
                   prev |-> prev.value, cur |-> cur]

---------------------------------------------------------------------------
(* Entries, source records and the collectors' candidate sets.             *)
FileEntry(f, p, status) ==
    [path |-> p, size |-> Size(f[p].c), hash |-> calculate_file_hash(f, p),
     status |-> status, error |-> FALSE]
FailedEntry(p) ==
    [path |-> p, size |-> None, hash |-> None, status |-> "failed", error |-> TRUE]

SourceRecordUncounted(files, skipped) ==
    [kind |-> "files", files |-> files, files_skipped |-> 0]

SourceRecord(files, skipped) == [kind |-> "files", files |-> files, files_skipped |-> skipped]
MetricsRecord == [kind |-> "metrics", files |-> {}, files_skipped |-> None]
ErrorRecord == [kind |-> "error", files |-> {}, files_skipped |-> None]
NotCollected == [kind |-> "none", files |-> {}, files_skipped |-> None]
NoSources == [s \in Range(SourceNames) |-> NotCollected]

LogGlob == {"a.log", "Cross-Space.log"}
ConversationGlob == {"conversation-1.json"}
JsonGlob == {"cfg.json"}
ConfigPaths == {<<"copilot", "config.json">>, <<"config", "copilot-schema.json">>,
                <<".env.framework">>}
ExclusiveDirs == {HAF, "framework-exclusive"}

validate_log_framework_content(f, p) == Readable(f, p) /\ HasMarker(f[p].c)

validate_file_strict(f, p) == Readable(f, p) /\ HasMarker(f[p].c)

validate_file_framework_content(f, p) == ~Readable(f, p) \/ HasMarker(f[p].c)

LogCandidates(f, day) ==
    {p \in DOMAIN f : /\ Len(p) = 2 /\ p[1] = "logs" /\ p[2] \in LogGlob
                      /\ f[p].mt >= day - LogWindowDays
                      /\ validate_log_framework_content(f, p)}
ConversationCandidates(f) ==
    {p \in DOMAIN f : /\ Len(p) = 1 /\ p[1] \in ConversationGlob
                      /\ validate_file_framework_content(f, p)}
ConfigCandidates(f) ==
    {p \in DOMAIN f : \/ p \in ConfigPaths
                      \/ (Len(p) = 2 /\ p[1] = HAF /\ p[2] \in JsonGlob)}
ExclusiveCandidates(f) == {p \in DOMAIN f : p[1] \in ExclusiveDirs}
ObjectivesFiles(f) ==
    {p \in DOMAIN f : /\ Len(p) = 5 /\ SubSeq(p, 1, 3) = <<"~", "Perplexity", "spaces">>
                      /\ p[5] = "objectives.json"}

(* The loop "if self._should_process_file(p): append entry else: skipped   *)
(* += 1" over a collector's candidates.                                    *)
RECURSIVE Gate(_, _, _, _)
Gate(cands, ck, nck, f) ==
    IF cands = {}
    THEN [raise |-> FALSE, nck |-> nck, emitted |-> {}, skipped |-> 0, calls |-> {}]
    ELSE LET p == CHOOSE x \in cands : TRUE
             r == should_process_file(ck, nck, f, p)
             call == [path |-> p, prev |-> r.prev, cur |-> r.cur, res |-> r.res,
                      before |-> nck.files, after |-> r.nck.files]
         IN  IF r.res = "raise"
             THEN [raise |-> TRUE, nck |-> nck, emitted |-> {}, skipped |-> 0,
                   calls |-> {call}]
             ELSE LET rest == Gate(cands \ {p}, ck, r.nck, f)
                  IN  [raise |-> rest.raise, nck |-> rest.nck,
                       emitted |-> rest.emitted \cup (IF r.res = "true" THEN {p} ELSE {}),
                       skipped |-> rest.skipped + (IF r.res = "false" THEN 1 ELSE 0),
                       calls |-> rest.calls \cup {call}]

(* json.dumps(data).lower() and the scan for prohibited_spaces.  The       *)
(* payload of a file source holds the path of each emitted entry.          *)
Lower(s) ==
    CASE s = "Cross-Space.log" -> "cross-space.log"
      [] s = FRAMEWORK_SPACE -> "human-ai-framework"
      [] OTHER -> s
HasProhibited(s) == s \in {"cross-space.log"}
PayloadTokens(data) == UNION {Range(e.path) : e \in data.files}

validate_data_exclusivity_alt(data) ==
    ~ \E t \in PayloadTokens(data) : HasProhibited(t)

validate_data_exclusivity(data) ==
    ~ \E t \in PayloadTokens(data) : HasProhibited(Lower(t))

-------------------------------------------------------------------------------------------------------------------------------------------------
(* Observations kept for the properties.                                   *)
NoRun == [start |-> NoCkptFile, day |-> 0, marked |-> {}, copied |-> {}, calls |-> {},
          done |-> {}, saveInvoked |-> FALSE, changedBefore |-> {}, dropped |-> {},
          space |-> "", printed |-> {}]

(* The exit status of main: a normal return, or sys.exit(1) in either      *)
(* except clause; a killed process has none.                               *)
ExitCodeZero(outcome) == 0

ExitCode(outcome) ==
    CASE outcome = "success" -> 0
      [] outcome \in {"denied", "failed"} -> 1
      [] OTHER -> None

Finished(r, outcome, at, endFile, inprogress) ==
    [outcome |-> outcome, failedAt |-> at, start |-> r.start, end |-> endFile,
     day |-> r.day, marked |-> r.marked, copied |-> r.copied, calls |-> r.calls,
     done |-> r.done, saveInvoked |-> r.saveInvoked, changedBefore |-> r.changedBefore,
     dropped |-> r.dropped, space |-> r.space, inprogress |-> inprogress,
     exit |-> ExitCode(outcome), printed |-> r.printed]

Log2(log, rec) == IF Len(log) < 2 THEN Append(log, rec) ELSE <<log[2], rec>>

NoManifest == [week_id |-> None, day |-> None, data_sources |-> EmptyMap,
               exclusivity_verified |-> FALSE]

clock == <<now, ticks>>
disk == <<fs, ckptFile, tmpFile, dbRows, manifestFiles, auditFiles>>
mem == <<checkpoint, new_checkpoint, data_sources, manifest, cursor, totals,
         checksum, old_compilations, audit_log>>

(* The process ends (sys.exit, return from main, or a kill): everything in *)
(* memory is gone.  r is the run's record, endFile the checkpoint file it  *)
(* leaves behind.                                                          *)
EndRun(r, outcome, at, endFile) ==
    /\ pc' = "idle"
    /\ runlog' = Log2(runlog, Finished(r, outcome, at, endFile, new_checkpoint.files))
    /\ run' = NoRun
    /\ changed' = {}
    /\ checkpoint' = EmptyCheckpoint
    /\ new_checkpoint' = EmptyCheckpoint
    /\ data_sources' = NoSources
    /\ manifest' = NoManifest
    /\ cursor' = 0
    /\ totals' = [files |-> 0, size |-> 0]
    /\ checksum' = {}
    /\ old_compilations' = <<>>
    /\ audit_log' = <<>>

Step(next, step) ==
    /\ pc' = next
    /\ run' = [run EXCEPT !.done = @ \cup {step}]
    /\ UNCHANGED <<runlog, changed>>

---------------------------------------------------------------------------
(* main: WeeklyCompiler(space_name).                                       *)
ConstructThenValidate(space_name) ==
    /\ pc = "idle"
    /\ runs > 0
    /\ runs' = runs - 1
    /\ runNo' = runNo + 1
    /\ LET r == [NoRun EXCEPT !.start = ckptFile, !.day = now, !.changedBefore = changed,
                              !.space = space_name]
           granted == space_name = FRAMEWORK_SPACE
       IN  IF granted
           THEN /\ pc' = "init_db"
                /\ run' = r
                /\ checkpoint' = load_checkpoint(ckptFile)
                /\ new_checkpoint' = CkptDoc("ok", EmptyMap, now, WeekOf(now))
                /\ audit_log' = <<[action |-> "access_validation", result |-> "granted",
                                   files_processed |-> None]>>
                /\ fs' = fs
                /\ UNCHANGED <<runlog, changed, data_sources, manifest, cursor, totals,
                               checksum, old_compilations>>
           ELSE /\ fs' = IF DbPath \in DOMAIN fs THEN fs
                         ELSE Put(fs, DbPath, File(GenBase, now))
                /\ EndRun(r, "denied", "construct", ckptFile)
    /\ UNCHANGED <<clock, edits, faults, ckptFile, tmpFile, dbRows, manifestFiles, auditFiles,
                   verifier>>

Construct(space_name) ==
    /\ pc = "idle"
    /\ runs > 0
    /\ runs' = runs - 1
    /\ runNo' = runNo + 1
    /\ LET r == [NoRun EXCEPT !.start = ckptFile, !.day = now, !.changedBefore = changed,
                              !.space = space_name]
           granted == space_name = FRAMEWORK_SPACE
       IN  IF granted
           THEN /\ pc' = "init_db"
                /\ run' = r
                /\ checkpoint' = load_checkpoint(ckptFile)
                /\ new_checkpoint' = CkptDoc("ok", EmptyMap, now, WeekOf(now))
                /\ audit_log' = <<[action |-> "access_validation", result |-> "granted",
                                   files_processed |-> None]>>
                /\ UNCHANGED <<runlog, changed, data_sources, manifest, cursor, totals,
                               checksum, old_compilations>>
           ELSE EndRun(r, "denied", "construct", ckptFile)
    /\ UNCHANGED <<clock, edits, faults, disk, verifier>>

InitDatabase ==
    /\ pc = "init_db"
    /\ fs' = IF DbPath \in DOMAIN fs THEN fs ELSE Put(fs, DbPath, File(GenBase, now))
    /\ Step("collect_logs", "init_db")
    /\ UNCHANGED <<clock, runNo, runs, verifier, edits, faults, ckptFile, tmpFile, dbRows, manifestFiles, auditFiles, mem>>

(* The common shape of the four checkpoint-gated collectors.               *)
Collect(source, cands, next) ==
    LET g == Gate(cands, checkpoint, new_checkpoint, fs)
        r == [run EXCEPT !.calls = @ \cup g.calls,
                         !.marked = @ \cup {<<source, p>> : p \in g.emitted},
                         !.done = @ \cup {source}]
    IN  /\ IF g.raise
           THEN EndRun(r, "failed", source, ckptFile)
           ELSE /\ pc' = next
                /\ run' = r
                /\ new_checkpoint' = g.nck
                /\ data_sources' =
                       [data_sources EXCEPT ![source] =
                           SourceRecord({FileEntry(fs, p, "new_or_changed") : p \in g.emitted},
                                        g.skipped)]
                /\ UNCHANGED <<runlog, changed, checkpoint, manifest, cursor, totals,
                               checksum, old_compilations, audit_log>>
        /\ UNCHANGED <<clock, runNo, runs, verifier, edits, faults, disk>>

CollectCopilotLogs ==
    /\ pc = "collect_logs"
    /\ Collect("copilot_logs", LogCandidates(fs, now), "collect_conversations")

CollectConversationData ==
    /\ pc = "collect_conversations"
    /\ Collect("conversation_data", ConversationCandidates(fs), "collect_configs")

CollectFrameworkConfigs ==
    /\ pc = "collect_configs"
    /\ Collect("framework_configs", ConfigCandidates(fs), "collect_metrics")

CollectWeeklyMetrics ==
    /\ pc = "collect_metrics"
    /\ data_sources' = [data_sources EXCEPT !["weekly_metrics"] = MetricsRecord]
    /\ Step("collect_exclusive", "weekly_metrics")
    /\ UNCHANGED <<clock, runNo, runs, verifier, edits, faults, disk, checkpoint, new_checkpoint, manifest,
                   cursor, totals, checksum, old_compilations, audit_log>>

CollectExclusiveContent ==
    /\ pc = "collect_exclusive"
    /\ Collect("exclusive_content", ExclusiveCandidates(fs), "sync_objectives")

(* _synchronize_objectives: spaceName is written back into every valid     *)
(* record that lacks it; a record that does not parse is reported failed.  *)
InjectedAlways(f, objs, day) ==
    [p \in DOMAIN f |->
        IF p \in objs /\ ValidJson(f[p].c)
        THEN File(IF HasSpaceName(f[p].c) THEN f[p].c ELSE f[p].c + InjectBase, day)
        ELSE f[p]]

Injected(f, objs, day) ==
    [p \in DOMAIN f |->
        IF p \in objs /\ ValidJson(f[p].c) /\ ~HasSpaceName(f[p].c)
        THEN File(f[p].c + InjectBase, day) ELSE f[p]]

SynchronizeObjectivesStrict ==
    /\ pc = "sync_objectives"
    /\ \E p \in ObjectivesFiles(fs) : ~ValidJson(fs[p].c)
    /\ EndRun(run, "failed", "objectives_sync", ckptFile)
    /\ UNCHANGED <<clock, runNo, runs, verifier, edits, faults, disk>>

SynchronizeObjectives ==
    /\ pc = "sync_objectives"
    /\ LET objs == ObjectivesFiles(fs)
           after == Injected(fs, objs, now)
       IN  /\ fs' = after
           /\ data_sources' =
                 [data_sources EXCEPT !["objectives_sync"] =
                     [kind |-> "files", files_skipped |-> None,
                      files |-> {IF ValidJson(fs[p].c) THEN FileEntry(after, p, "processed")
                                 ELSE FailedEntry(p) : p \in objs}]]
    /\ Step("validate", "objectives_sync")
    /\ UNCHANGED <<clock, runNo, runs, verifier, edits, faults, ckptFile, tmpFile, dbRows, manifestFiles, auditFiles,
                   checkpoint, new_checkpoint, manifest, cursor, totals, checksum,
                   old_compilations, audit_log>>

(* The tail of collect_framework_data: the exclusivity loop and the audit  *)
(* event.                                                                  *)
Validated(ds) ==
    [s \in DOMAIN ds |->
        IF ds[s].kind = "files" /\ ~validate_data_exclusivity(ds[s])
        THEN ErrorRecord ELSE ds[s]]

RECURSIVE CountFiles(_, _)
CountFiles(ds, names) ==
    IF names = {} THEN 0
    ELSE LET s == CHOOSE x \in names : TRUE
         IN  Cardinality(ds[s].files) + CountFiles(ds, names \ {s})

ValidateExclusivity ==
    /\ pc = "validate"
    /\ data_sources' = Validated(data_sources)
    /\ audit_log' = Append(audit_log,
                       [action |-> "compilation_operation", result |-> "data_collection",
                        files_processed |-> CountFiles(data_sources', DOMAIN data_sources)])
    /\ pc' = "begin_compilation"
    /\ run' = [run EXCEPT !.done = @ \cup {"validate"},
                          !.dropped = {s \in DOMAIN data_sources :
                                          data_sources'[s].kind = "error"}]
    /\ UNCHANGED <<runlog, changed, clock, runNo, runs, verifier, edits, faults, disk, checkpoint,
                   new_checkpoint, manifest, cursor, totals, checksum, old_compilations>>

---------------------------------------------------------------------------
(* create_compilation.                                                     *)
week_id == WeekOf(now)
Dst(source, p) == BundleDir(week_id) \o <<source, Name(p)>>

BeginCompilation ==
    /\ pc = "begin_compilation"
    /\ manifest' = [week_id |-> week_id, day |-> now, data_sources |-> EmptyMap,
                    exclusivity_verified |-> TRUE]
    /\ cursor' = 1
    /\ totals' = [files |-> 0, size |-> 0]
    /\ Step("copy", "mkdir")
    /\ UNCHANGED <<clock, runNo, runs, verifier, edits, faults, disk, checkpoint, new_checkpoint,
                   data_sources, checksum, old_compilations, audit_log>>

(* The entries of one source that reach shutil.copy2.                      *)
EligibleUnguarded(source, data, f) ==
    {e \in data.files : /\ ~e.error
                        /\ e.status \in {"new_or_changed", "processed"}
                        /\ e.path \in DOMAIN f
                        /\ e.size # None}

Eligible(source, data, f) ==
    {e \in data.files : /\ ~e.error
                        /\ e.status \in {"new_or_changed", "processed"}
                        /\ e.path \in DOMAIN f
                        /\ e.size # None
                        /\ e.path # Dst(source, e.path)}

(* Destinations that more than one of the entries is copied to; the entry  *)
(* copied last stays.                                                      *)
Contended(source, entries) ==
    {d \in {Dst(source, e.path) : e \in entries} :
        Cardinality({e \in entries : Dst(source, e.path) = d}) > 1}
LastWriters(source, entries) ==
    {w \in [Contended(source, entries) -> entries] :
        \A d \in DOMAIN w : Dst(source, w[d].path) = d}
Copied(f, source, entries, last) ==
    LET dsts == {Dst(source, e.path) : e \in entries}
        from(d) == IF d \in DOMAIN last THEN last[d].path
                   ELSE (CHOOSE e \in entries : Dst(source, e.path) = d).path
    IN  [p \in DOMAIN f \cup dsts |-> IF p \in dsts THEN f[from(p)] ELSE f[p]]
CopiedEntry(source, e) ==
    [original_path |-> e.path, compiled_path |-> <<source, Name(e.path)>>,
     size |-> e.size, hash |-> e.hash]

NextCopy == IF cursor = Len(SourceNames) THEN "manifest" ELSE "copy"
CopyMark == IF cursor = Len(SourceNames) THEN "copy" ELSE "copying"

CopySource ==
    /\ pc = "copy"
    /\ \A e \in Eligible(SourceNames[cursor], data_sources[SourceNames[cursor]], fs) :
          Readable(fs, e.path)
    /\ LET source == SourceNames[cursor]
           data == data_sources[source]
           todo == Eligible(source, data, fs)
       IN  IF data.kind # "files"
           THEN /\ UNCHANGED <<fs, manifest, totals>>
                /\ Step(NextCopy, CopyMark)
           ELSE /\ \E last \in LastWriters(source, todo) :
                       fs' = Copied(fs, source, todo, last)
                /\ manifest' =
                       [manifest EXCEPT !.data_sources =
                           Put(@, source,
                               [files_count |-> Cardinality(todo),
                                total_size |-> SumSizes(todo),
                                files |-> {CopiedEntry(source, e) : e \in todo}])]
                /\ totals' = [files |-> totals.files + Cardinality(todo),
                              size |-> totals.size + SumSizes(todo)]
                /\ pc' = NextCopy
                /\ run' = [run EXCEPT !.copied = @ \cup {<<source, e.path>> : e \in todo},
                                      !.done = @ \cup {CopyMark}]
                /\ UNCHANGED <<runlog, changed>>
    /\ cursor' = cursor + 1
    /\ UNCHANGED <<clock, runNo, runs, verifier, edits, faults, ckptFile, tmpFile, dbRows, manifestFiles, auditFiles,
                   checkpoint, new_checkpoint, data_sources, checksum, old_compilations,
                   audit_log>>

(* shutil.copy2 cannot open one of the entries: the entries copied before  *)
(* it stay on disk and the exception leaves create_compilation.            *)
CopyUnreadable ==
    /\ pc = "copy"
    /\ LET source == SourceNames[cursor]
           data == data_sources[source]
           todo == Eligible(source, data, fs)
           good == {e \in todo : Readable(fs, e.path)}
       IN  /\ data.kind = "files"
           /\ good # todo
           /\ \E before \in SUBSET good :
                 \E last \in LastWriters(source, before) :
                    /\ fs' = Copied(fs, source, before, last)
                    /\ EndRun([run EXCEPT !.copied = @ \cup {<<source, e.path>> : e \in before}],
                              "failed", "copy", ckptFile)
    /\ UNCHANGED <<clock, runNo, runs, verifier, edits, faults, ckptFile, tmpFile, dbRows, manifestFiles,
                   auditFiles>>

(* shutil.copy2 raises on one entry: the entries copied before it stay on  *)
(* disk and the exception leaves create_compilation.                       *)
CopyRaises ==
    /\ pc = "copy"
    /\ faults > 0
    /\ faults' = faults - 1
    /\ LET source == SourceNames[cursor]
           data == data_sources[source]
           todo == Eligible(source, data, fs)
       IN  /\ data.kind = "files"
           /\ \E bad \in todo : \E before \in SUBSET (todo \ {bad}) :
                 \E last \in LastWriters(source, before) :
                    /\ fs' = Copied(fs, source, before, last)
                    /\ EndRun([run EXCEPT !.copied = @ \cup {<<source, e.path>> : e \in before}],
                              "failed", "copy", ckptFile)
    /\ UNCHANGED <<clock, runNo, runs, verifier, edits, ckptFile, tmpFile, dbRows, manifestFiles, auditFiles>>

WriteManifest ==
    /\ pc = "manifest"
    /\ fs' = Put(fs, ManifestPath(week_id), File(Gen(runNo, 1), now))
    /\ manifestFiles' = Put(manifestFiles, week_id, manifest)
    /\ Step("checksum", "manifest")
    /\ UNCHANGED <<clock, runNo, runs, verifier, edits, faults, ckptFile, tmpFile, dbRows, auditFiles, mem>>

calculate_compilation_checksum(f, w) ==
    {<<SubSeq(p, 3, Len(p)), f[p].c>> : p \in {q \in DOMAIN f : Under(q, BundleDir(w))}}

ComputeChecksum ==
    /\ pc = "checksum"
    /\ checksum' = calculate_compilation_checksum(fs, week_id)
    /\ Step("db", "checksum")
    /\ UNCHANGED <<clock, runNo, runs, verifier, edits, faults, disk, checkpoint, new_checkpoint,
                   data_sources, manifest, cursor, totals, old_compilations, audit_log>>

(* INSERT OR REPLACE under PRIMARY KEY week_id.                            *)
InsertPlain(rows, row) == rows \cup {row}

InsertOrReplace(rows, row) == {r \in rows : r.week_id # row.week_id} \cup {row}

CompilationRowListed ==
    [week_id |-> week_id, compilation_date |-> now,
     files_processed |-> CountFiles(data_sources, DOMAIN data_sources),
     total_size_bytes |-> totals.size, checksum |-> checksum, metadata |-> manifest]

CompilationRow ==
    [week_id |-> week_id, compilation_date |-> now, files_processed |-> totals.files,
     total_size_bytes |-> totals.size, checksum |-> checksum, metadata |-> manifest]

UpdateDatabase ==
    /\ pc = "db"
    /\ dbRows' = InsertOrReplace(dbRows, CompilationRow)
    /\ fs' = Put(fs, DbPath, File(Gen(runNo, 2), now))
    /\ Step("audit", "db")
    /\ UNCHANGED <<clock, runNo, runs, verifier, edits, faults, ckptFile, tmpFile, manifestFiles, auditFiles, mem>>

AuditDoc(operations) == [space_verified |-> FRAMEWORK_SPACE, operations |-> operations]

SaveAuditLogFirstEvent ==
    /\ pc = "audit"
    /\ fs' = Put(fs, AuditPath(week_id, now), File(Gen(runNo, 3), now))
    /\ auditFiles' = Put(auditFiles, AuditPath(week_id, now),
                         AuditDoc(SubSeq(audit_log, 1, 1)))
    /\ Step("save_open", "audit")
    /\ UNCHANGED <<clock, runNo, runs, verifier, edits, faults, ckptFile, tmpFile, dbRows, manifestFiles, mem>>

SaveAuditLog ==
    /\ pc = "audit"
    /\ fs' = Put(fs, AuditPath(week_id, now), File(Gen(runNo, 3), now))
    /\ auditFiles' = Put(auditFiles, AuditPath(week_id, now), AuditDoc(audit_log))
    /\ Step("save_open", "audit")
    /\ UNCHANGED <<clock, runNo, runs, verifier, edits, faults, ckptFile, tmpFile, dbRows, manifestFiles, mem>>

(* init_database or a step of create_compilation raises: main logs it and  *)
(* exits with 1.                                                           *)
FatalSteps == {"init_db", "manifest", "checksum", "db", "audit"}
StepRaisesSwallowed ==
    /\ pc \in FatalSteps
    /\ faults > 0
    /\ faults' = faults - 1
    /\ pc' = "save_open"
    /\ UNCHANGED <<run, runlog, changed, clock, runNo, runs, verifier, edits, disk, mem>>

StepRaises ==
    /\ pc \in FatalSteps
    /\ faults > 0
    /\ faults' = faults - 1
    /\ EndRun(run, "failed", pc, ckptFile)
    /\ UNCHANGED <<clock, runNo, runs, verifier, edits, disk>>

---------------------------------------------------------------------------
(* _save_checkpoint: open the temporary file, dump, replace.               *)
SaveOpenInPlace ==
    /\ pc = "save_open"
    /\ ckptFile' = Damaged("partial")
    /\ pc' = "save_dump"
    /\ run' = [run EXCEPT !.saveInvoked = TRUE]
    /\ UNCHANGED <<runlog, changed, clock, runNo, runs, verifier, edits, faults, fs, tmpFile, dbRows,
                   manifestFiles, auditFiles, mem>>

SaveOpenTmp ==
    /\ pc = "save_open"
    /\ tmpFile' = Damaged("partial")
    /\ pc' = "save_dump"
    /\ run' = [run EXCEPT !.saveInvoked = TRUE]
    /\ UNCHANGED <<runlog, changed, clock, runNo, runs, verifier, edits, faults, fs, ckptFile, dbRows,
                   manifestFiles, auditFiles, mem>>

SaveDumpPrevious ==
    /\ pc = "save_dump"
    /\ tmpFile' = checkpoint
    /\ pc' = "save_replace"
    /\ UNCHANGED <<run, runlog, changed, clock, runNo, runs, verifier, edits, faults, fs, ckptFile, dbRows,
                   manifestFiles, auditFiles, mem>>

SaveDumpTmp ==
    /\ pc = "save_dump"
    /\ tmpFile' = new_checkpoint
    /\ pc' = "save_replace"
    /\ UNCHANGED <<run, runlog, changed, clock, runNo, runs, verifier, edits, faults, fs, ckptFile, dbRows,
                   manifestFiles, auditFiles, mem>>

SaveReplace ==
    /\ pc = "save_replace"
    /\ ckptFile' = tmpFile
    /\ tmpFile' = NoCkptFile
    /\ Step("cleanup", "save")
    /\ UNCHANGED <<clock, runNo, runs, verifier, edits, faults, fs, dbRows, manifestFiles, auditFiles, mem>>

(* An error inside _save_checkpoint is caught and logged.                  *)
SaveRaises ==
    /\ pc \in {"save_open", "save_dump", "save_replace"}
    /\ faults > 0
    /\ faults' = faults - 1
    /\ pc' = "cleanup"
    /\ run' = [run EXCEPT !.saveInvoked = TRUE]
    /\ UNCHANGED <<runlog, changed, clock, runNo, runs, verifier, edits, disk, mem>>

---------------------------------------------------------------------------
(* cleanup_old_compilations and the end of main.                           *)
Orders(S) == {q \in [1 .. Cardinality(S) -> S] : Range(q) = S}
OldWeeksInclusive(rows, day) ==
    {r.week_id : r \in {x \in rows : x.compilation_date <= day - 7 * WEEKS_TO_RETAIN}}

OldWeeksAll(rows, day) == {r.week_id : r \in rows}

OldWeeks(rows, day) ==
    {r.week_id : r \in {x \in rows : x.compilation_date < day - 7 * WEEKS_TO_RETAIN}}

CleanupSelect ==
    /\ pc = "cleanup"
    /\ old_compilations' \in Orders(OldWeeks(dbRows, now))
    /\ Step("cleanup_loop", "select")
    /\ UNCHANGED <<clock, runNo, runs, verifier, edits, faults, disk, checkpoint, new_checkpoint,
                   data_sources, manifest, cursor, totals, checksum, audit_log>>

BundleFiles(f, w) == {p \in DOMAIN f : Under(p, BundleDir(w))}

(* if old_dir.exists(): shutil.rmtree(old_dir), for the week id at the     *)
(* head of the list.                                                       *)
CleanupKeepDir ==
    /\ pc = "cleanup_loop"
    /\ old_compilations # <<>>
    /\ pc' = "cleanup_row"
    /\ UNCHANGED <<run, runlog, changed, clock, runNo, runs, verifier, edits, faults, disk, mem>>

CleanupRmtree ==
    /\ pc = "cleanup_loop"
    /\ old_compilations # <<>>
    /\ LET w == Head(old_compilations)
       IN  /\ fs' = Drop(fs, BundleFiles(fs, w))
           /\ manifestFiles' = Drop(manifestFiles, {w})
           /\ auditFiles' = Drop(auditFiles, BundleFiles(fs, w))
    /\ pc' = "cleanup_row"
    /\ UNCHANGED <<run, runlog, changed, clock, runNo, runs, verifier, edits, faults, ckptFile, tmpFile,
                   dbRows, mem>>

(* shutil.rmtree raises after removing part of the directory: the          *)
(* exception leaves cleanup_old_compilations and main exits with 1.        *)
RmtreeRaises ==
    /\ pc = "cleanup_loop"
    /\ old_compilations # <<>>
    /\ faults > 0
    /\ faults' = faults - 1
    /\ LET w == Head(old_compilations)
       IN  \E gone \in SUBSET BundleFiles(fs, w) :
              /\ gone # BundleFiles(fs, w)
              /\ fs' = Drop(fs, gone)
              /\ manifestFiles' = IF ManifestPath(w) \in gone
                                  THEN Drop(manifestFiles, {w}) ELSE manifestFiles
              /\ auditFiles' = Drop(auditFiles, gone)
    /\ EndRun(run, "failed", "cleanup_rmtree", ckptFile)
    /\ UNCHANGED <<clock, runNo, runs, verifier, edits, ckptFile, tmpFile, dbRows>>

(* DELETE FROM files_tracked / compilations WHERE week_id = ?              *)
CleanupRemove ==
    /\ pc = "cleanup_row"
    /\ LET w == Head(old_compilations)
       IN  /\ dbRows' = {r \in dbRows : r.week_id # w}
           /\ fs' = Put(fs, DbPath, File(Gen(runNo, 4), now))
    /\ old_compilations' = Tail(old_compilations)
    /\ pc' = "cleanup_loop"
    /\ UNCHANGED <<run, runlog, changed, clock, runNo, runs, verifier, edits, faults, ckptFile, tmpFile,
                   manifestFiles, auditFiles, checkpoint, new_checkpoint, data_sources, manifest,
                   cursor, totals, checksum, audit_log>>

SummaryDoc ==
    [status |-> "success", week_id |-> week_id, compilation_dir |-> BundleDir(week_id),
     space_verified |-> FRAMEWORK_SPACE,
     files_processed |-> CountFiles(data_sources, DOMAIN data_sources)]

Summary ==
    /\ pc = "cleanup_loop"
    /\ old_compilations = <<>>
    /\ EndRun([run EXCEPT !.printed = {SummaryDoc}], "success", "none", ckptFile)
    /\ UNCHANGED <<clock, runNo, runs, verifier, edits, faults, disk>>

(* The process is killed.                                                  *)
Kill ==
    /\ pc # "idle"
    /\ faults > 0
    /\ faults' = faults - 1
    /\ EndRun(run, "killed", pc, ckptFile)
    /\ UNCHANGED <<clock, runNo, runs, verifier, edits, disk>>

---------------------------------------------------------------------------
(* The environment, between runs.                                          *)
TickSteps == {7, 85}

ModifyFile ==
    /\ pc = "idle"
    /\ edits > 0
    /\ edits' = edits - 1
    /\ \E p \in UserFiles \cap DOMAIN fs : \E c \in Contents \ {fs[p].c} :
          /\ fs' = Put(fs, p, File(c, now))
          /\ changed' = changed \cup {p}
    /\ UNCHANGED <<pc, run, runlog, clock, runNo, runs, verifier, faults, ckptFile, tmpFile, dbRows,
                   manifestFiles, auditFiles, mem>>

CreateFile ==
    /\ pc = "idle"
    /\ edits > 0
    /\ edits' = edits - 1
    /\ \E p \in UserFiles \ DOMAIN fs : \E c \in Contents :
          /\ fs' = Put(fs, p, File(c, now))
          /\ changed' = changed \cup {p}
    /\ UNCHANGED <<pc, run, runlog, clock, runNo, runs, verifier, faults, ckptFile, tmpFile, dbRows,
                   manifestFiles, auditFiles, mem>>

(* A file loses its read permission.                                       *)
Revoke ==
    /\ pc = "idle"
    /\ edits > 0
    /\ edits' = edits - 1
    /\ \E p \in UserFiles \cap DOMAIN fs :
          /\ Readable(fs, p)
          /\ fs' = Put(fs, p, File(Unreadable, fs[p].mt))
          /\ changed' = changed \cup {p}
    /\ UNCHANGED <<pc, run, runlog, clock, runNo, runs, verifier, faults, ckptFile, tmpFile, dbRows,
                   manifestFiles, auditFiles, mem>>

Tick ==
    /\ pc = "idle"
    /\ ticks > 0
    /\ ticks' = ticks - 1
    /\ \E d \in TickSteps : now' = now + d
    /\ UNCHANGED <<pc, run, runlog, changed, runNo, runs, verifier, edits, faults, disk, mem>>

---------------------------------------------------------------------------
Installed == [p \in {L1, V1, F1, O1} |-> File(1, 0)]
InitialCkptFiles ==
    {NoCkptFile} \cup {Damaged(s) : s \in {"unparsable", "non_object", "no_files",
                                            "files_unsized", "files_sized"}}

InitPipeline(files, ckpts, nRuns, nEdits, nTicks, nFaults) ==
    /\ pc = "idle"
    /\ now = 0
    /\ runNo = 0
    /\ runs = nRuns
    /\ edits = nEdits
    /\ ticks = nTicks
    /\ faults = nFaults
    /\ fs = files
    /\ ckptFile \in ckpts
    /\ tmpFile = NoCkptFile
    /\ dbRows = {}
    /\ manifestFiles = [w \in {} |-> 0]
    /\ auditFiles = [w \in {} |-> 0]
    /\ checkpoint = EmptyCheckpoint
    /\ new_checkpoint = EmptyCheckpoint
    /\ data_sources = NoSources
    /\ manifest = NoManifest
    /\ cursor = 0
    /\ totals = [files |-> 0, size |-> 0]
    /\ checksum = {}
    /\ old_compilations = <<>>
    /\ audit_log = <<>>
    /\ run = NoRun
    /\ runlog = <<>>
    /\ changed = {}

(* verify_jsons.py is not running.                                         *)
VerifierOff ==
    /\ json_files = <<>>
    /\ vpc = "off"
    /\ jf = 0
    /\ backups = {}
    /\ audit_lines = <<>>
    /\ exit_code = None

InitWith(files, ckpts, nRuns, nEdits, nTicks, nFaults) ==
    /\ InitPipeline(files, ckpts, nRuns, nEdits, nTicks, nFaults)
    /\ VerifierOff

Init == InitWith(Installed, InitialCkptFiles, MaxRuns, MaxEdits, MaxTicks, 0)

Compile ==
    \/ \E space_name \in {FRAMEWORK_SPACE, "unknown"} : Construct(space_name)
    \/ InitDatabase
    \/ CollectCopilotLogs
    \/ CollectConversationData
    \/ CollectFrameworkConfigs
    \/ CollectWeeklyMetrics
    \/ CollectExclusiveContent
    \/ SynchronizeObjectives
    \/ ValidateExclusivity
    \/ BeginCompilation
    \/ CopySource
    \/ WriteManifest
    \/ ComputeChecksum
    \/ UpdateDatabase
    \/ SaveAuditLog
    \/ SaveOpenTmp
    \/ SaveDumpTmp
    \/ SaveReplace
    \/ CleanupSelect
    \/ Summary

Next ==
    \/ Compile
    \/ CleanupRmtree
    \/ CleanupRemove
    \/ ModifyFile
    \/ CreateFile
    \/ Tick

Spec == Init /\ [][Next]_vars

(* The same program with I/O errors and kills.                             *)
Faults ==
    \/ CopyRaises
    \/ StepRaises
    \/ SaveRaises
    \/ RmtreeRaises
    \/ Kill

InitFaulty == InitWith(Installed, {NoCkptFile}, FaultyRuns, MaxEdits, MaxTicks, MaxFaults)
NextFaulty == Next \/ Faults
SpecFaulty == InitFaulty /\ [][NextFaulty]_vars

(* Runs, kills and retries within one week over a single log file.         *)
OneLog == [p \in {L1} |-> File(1, 0)]
InitRetry == InitWith(OneLog, {NoCkptFile}, RetryRuns, RetryEdits, 0, MaxFaults)
NextRetry == Compile \/ ModifyFile \/ Kill
SpecRetry == InitRetry /\ [][NextRetry]_vars

(* Retention: runs dated around the cutoff of a later run.                 *)
RetentionTickSteps == {1, 2, 6, 83, 84}

RetentionTick ==
    /\ pc = "idle"
    /\ ticks > 0
    /\ ticks' = ticks - 1
    /\ \E d \in RetentionTickSteps : now' = now + d
    /\ UNCHANGED <<pc, run, runlog, changed, runNo, runs, verifier, edits, faults, disk, mem>>

InitPrune == InitWith(OneLog, {NoCkptFile}, PruneRuns, 0, PruneTicks, 0)
NextPrune ==
    \/ Compile
    \/ CleanupRmtree
    \/ CleanupRemove
    \/ RetentionTick
SpecPrune == InitPrune /\ [][NextPrune]_vars

(* Retention with failing directory removals and kills.                    *)
InitPruneFaulty ==
    InitWith(OneLog, {NoCkptFile}, PruneRuns, 0, FaultyPruneTicks, MaxFaults)
NextPruneFaulty ==
    \/ Compile
    \/ CleanupRmtree
    \/ CleanupRemove
    \/ Tick
    \/ RmtreeRaises
    \/ Kill
SpecPruneFaulty == InitPruneFaulty /\ [][NextPruneFaulty]_vars

(* Runs over files that cannot be read.                                    *)
ThreeFiles == [p \in {L1, V1, O1} |-> File(1, 0)]
InitUnreadable ==
    InitWith(ThreeFiles, {NoCkptFile}, UnreadableRuns, UnreadableEdits, 0, 0)
NextUnreadable ==
    \/ Compile
    \/ CopyUnreadable
    \/ Revoke
    \/ CreateFile
SpecUnreadable == InitUnreadable /\ [][NextUnreadable]_vars

(* The bundle checksum as a function of the order in which the entries of  *)
(* a source are listed: the same tree is compiled twice into a fresh       *)
(* bundle directory, on the same date; runlog keeps the order and the      *)
(* checksum of each build.                                                 *)
OrderInputs ==
    UNION {[S -> {File(c, 0) : c \in 1 .. MaxContent}] : S \in SUBSET {F1, X1, X2}}

RECURSIVE CopyInOrder(_, _, _)
CopyInOrder(f, source, q) ==
    IF q = <<>> THEN f
    ELSE CopyInOrder(Put(f, Dst(source, Head(q).path), f[Head(q).path]), source, Tail(q))

(* json.dump of the manifest: the entries of copied_files in list order.   *)
PathDigit(p) == CASE p = F1 -> 1 [] p = X1 -> 2 [] OTHER -> 3
EntryDigits(e) == 10 * PathDigit(e.path) + (e.hash - Sha16Base)
RECURSIVE ManifestDigits(_)
ManifestDigits(q) ==
    IF q = <<>> THEN GenBase
    ELSE 100 * ManifestDigits(SubSeq(q, 1, Len(q) - 1)) + EntryDigits(q[Len(q)])

BuildInOrder ==
    /\ pc = "idle"
    /\ Len(runlog) < OrderBuilds
    /\ LET source == "exclusive_content"
           data == SourceRecord({FileEntry(fs, p, "new_or_changed") :
                                    p \in ExclusiveCandidates(fs)}, 0)
           todo == Eligible(source, data, fs)
       IN  \E q \in Orders(todo) :
              LET copied == CopyInOrder(fs, source, q)
                  listed == Put(copied, ManifestPath(week_id),
                                File(ManifestDigits(q), now))
              IN  runlog' = Append(runlog,
                       [order |-> q,
                        checksum |-> calculate_compilation_checksum(listed, week_id)])
    /\ UNCHANGED <<pc, run, changed, clock, runNo, runs, verifier, edits, faults, disk, mem>>

InitOrder == \E files \in OrderInputs : InitWith(files, {NoCkptFile}, 0, 0, 0, 0)
SpecOrder == InitOrder /\ [][BuildInOrder]_vars

---------------------------------------------------------------------------
(* verify_jsons.py.  Each element of JSON_FILES is what json.load and      *)
(* validate make of the file: "valid", "invalid" (ValidationError) or      *)
(* "unparsable" (json.load raises).                                        *)
JsonKinds == {"valid", "invalid", "unparsable"}

LoadSchema ==
    /\ vpc = "load_schema"
    /\ vpc' = "validate"
    /\ jf' = 1
    /\ UNCHANGED <<pipeline, json_files, backups, audit_lines, exit_code>>

(* json.load(open(SCHEMA_FILE)) raises: the traceback ends the process.    *)
LoadSchemaRaises ==
    /\ vpc = "load_schema"
    /\ vpc' = "exited"
    /\ exit_code' = 1
    /\ UNCHANGED <<pipeline, json_files, jf, backups, audit_lines>>

ValidateFileLenient ==
    /\ vpc = "validate"
    /\ jf <= Len(json_files)
    /\ IF json_files[jf] \in {"valid", "invalid"}
       THEN vpc' = "backup" /\ exit_code' = exit_code
       ELSE vpc' = "exited" /\ exit_code' = 1
    /\ UNCHANGED <<pipeline, json_files, jf, backups, audit_lines>>

ValidateFile ==
    /\ vpc = "validate"
    /\ jf <= Len(json_files)
    /\ IF json_files[jf] = "valid"
       THEN vpc' = "backup" /\ exit_code' = exit_code
       ELSE vpc' = "exited" /\ exit_code' = 1
    /\ UNCHANGED <<pipeline, json_files, jf, backups, audit_lines>>

Backup ==
    /\ vpc = "backup"
    /\ backups' = backups \cup {jf}
    /\ vpc' = "log_audit"
    /\ UNCHANGED <<pipeline, json_files, jf, audit_lines, exit_code>>

LogAudit ==
    /\ vpc = "log_audit"
    /\ audit_lines' = Append(audit_lines, [kind |-> "backed_up", file |-> jf])
    /\ jf' = jf + 1
    /\ vpc' = "validate"
    /\ UNCHANGED <<pipeline, json_files, backups, exit_code>>

Finish ==
    /\ vpc = "validate"
    /\ jf > Len(json_files)
    /\ audit_lines' = Append(audit_lines, [kind |-> "completed", file |-> 0])
    /\ vpc' = "exited"
    /\ exit_code' = 0
    /\ UNCHANGED <<pipeline, json_files, jf, backups>>

InitVerify ==
    /\ InitPipeline(EmptyMap, {NoCkptFile}, 0, 0, 0, 0)
    /\ json_files \in UNION {[1 .. n -> JsonKinds] : n \in 0 .. MaxJsonFiles}
    /\ vpc = "load_schema"
    /\ jf = 0
    /\ backups = {}
    /\ audit_lines = <<>>
    /\ exit_code = None

NextVerify ==
    \/ LoadSchema
    \/ LoadSchemaRaises
    \/ ValidateFile
    \/ Backup
    \/ LogAudit
    \/ Finish
SpecVerify == InitVerify /\ [][NextVerify]_vars

---------------------------------------------------------------------------
(* Properties.                                                             *)
Last == runlog[Len(runlog)]
AllCalls == run.calls \cup UNION {runlog[i].calls : i \in DOMAIN runlog}
PathsOf(pairs) == {m[2] : m \in pairs}
PathsOfSource(pairs, s) == {m[2] : m \in {x \in pairs : x[1] = s}}
CompilationSteps == {"copy", "manifest", "checksum", "db"}
SavePoints == {"save_open", "save_dump", "save_replace"}
AfterSave == {"cleanup", "cleanup_loop", "cleanup_row"}
GatedSources == {"copilot_logs", "conversation_data", "framework_configs",
                 "exclusive_content"}
DenylistedNames == {"Cross-Space.log"}
Contaminated(marked, s) ==
    \E m \in marked : m[1] = s /\ Range(m[2]) \cap DenylistedNames # {}

(* C1: the checkpoint file is replaced, and _save_checkpoint entered, only *)
(* after all copies, the manifest write, the checksum and the tracking-row *)
(* write of the run are done; a run in which one of them raised never      *)
(* entered _save_checkpoint and left the checkpoint file as it found it.   *)
C1_CheckpointAfterCompilation ==
    /\ (pc # "idle" /\ (run.saveInvoked \/ ckptFile # run.start))
          => CompilationSteps \subseteq run.done
    /\ \A i \in DOMAIN runlog :
          LET r == runlog[i]
          IN  /\ (r.saveInvoked \/ r.end # r.start) => CompilationSteps \subseteq r.done
              /\ (r.outcome = "failed" /\ r.failedAt \in CompilationSteps)
                    => (~r.saveInvoked /\ r.end = r.start)

C1_Witness ==
    \E i \in DOMAIN runlog :
        /\ runlog[i].outcome = "failed"
        /\ runlog[i].failedAt = "db"
        /\ runlog[i].copied # {}
        /\ runlog[i].start.shape = "ok"

(* C2: a second successful run with no file edited since the first         *)
(* successful run marks no file new_or_changed and copies no file.         *)
C2_SecondRunFindsNothing ==
    (/\ Len(runlog) = 2
     /\ runlog[1].outcome = "success"
     /\ runlog[2].outcome = "success"
     /\ runlog[2].changedBefore = {})
        => (runlog[2].marked = {} /\ runlog[2].copied = {})

(* C3: the canonical checkpoint file never holds a partially written       *)
(* document, and from the opening of the temporary file until the replace  *)
(* it holds the checkpoint the run started with, also after a kill there.  *)
C3_CrashSafeSave ==
    /\ ckptFile.shape # "partial"
    /\ pc \in SavePoints => ckptFile = run.start
    /\ \A i \in DOMAIN runlog :
          (runlog[i].outcome = "killed" /\ runlog[i].failedAt \in SavePoints)
              => runlog[i].end = runlog[i].start

C3_Witness ==
    /\ pc = "idle"
    /\ runlog # <<>>
    /\ Last.outcome = "killed"
    /\ Last.failedAt = "save_dump"
    /\ tmpFile.shape = "partial"
    /\ ckptFile.shape = "ok"
    /\ ckptFile.files # EmptyMap

(* C4: when exactly one file collected by the previous successful run was  *)
(* edited and nothing else, the next run marks exactly that file           *)
(* new_or_changed.                                                         *)
C4_ExactlyTheChangedFile ==
    (/\ Len(runlog) = 2
     /\ runlog[1].outcome = "success"
     /\ runlog[2].outcome = "success"
     /\ Cardinality(runlog[2].changedBefore) = 1
     /\ runlog[2].changedBefore \subseteq
            (PathsOf(runlog[1].marked) \cap PathsOf(runlog[1].copied)))
        => PathsOf(runlog[2].marked) = runlog[2].changedBefore

(* C5: after a successful run every copied file is in the persisted        *)
(* checkpoint with the hash of its current content.                        *)
C5_CopiedFilesCheckpointed ==
    (/\ pc = "idle"
     /\ runlog # <<>>
     /\ Last.outcome = "success"
     /\ changed = {})
        => \A m \in Last.copied :
              /\ m[2] \in DOMAIN ckptFile.files
              /\ ckptFile.files[m[2]] = calculate_file_checksum(fs, m[2])

(* C6: a successful run keeps every path of the checkpoint it loaded, and  *)
(* keeps the stored hash of every file it found unchanged.                 *)
C6_CheckpointOnlyGrows ==
    \A i \in DOMAIN runlog :
        LET r == runlog[i]
        IN  (r.outcome = "success" /\ r.start.shape = "ok" /\ r.end.shape = "ok")
               => /\ DOMAIN r.start.files \subseteq DOMAIN r.end.files
                  /\ \A c \in r.calls :
                        c.res = "false"
                           => /\ c.path \in DOMAIN r.end.files
                              /\ r.end.files[c.path] = r.start.files[c.path]

(* C7: _should_process_file returns False exactly when the stored hash     *)
(* equals the current one; otherwise it returns True with the current hash *)
(* recorded in the in-progress checkpoint.                                 *)
C7_ShouldProcessContract ==
    \A c \in AllCalls :
        /\ c.res = "false" <=> c.prev = c.cur
        /\ c.prev # c.cur
              => (c.res = "true" /\ c.path \in DOMAIN c.after /\ c.after[c.path] = c.cur)

(* C8: whatever the checkpoint file holds, no call of _should_process_file *)
(* raises, and a run started on a missing or damaged file treats every     *)
(* candidate as new.                                                       *)
C8_DamagedCheckpointIsEmpty ==
    /\ \A c \in AllCalls : c.res # "raise"
    /\ \A i \in DOMAIN runlog : runlog[i].outcome # "failed"
    /\ run.start.shape # "ok" => \A c \in run.calls : c.res = "true"

(* C9: a run killed before _save_checkpoint completed left the checkpoint  *)
(* file as it found it, and a completed retry with no file edited in       *)
(* between marks every file the killed run had marked.                     *)
C9_RetryLosesNothing ==
    \A i \in DOMAIN runlog :
        (runlog[i].outcome = "killed" /\ runlog[i].failedAt \notin AfterSave)
           => /\ runlog[i].end = runlog[i].start
              /\ (/\ i < Len(runlog)
                  /\ runlog[i + 1].outcome = "success"
                  /\ runlog[i + 1].changedBefore = {}
                  /\ runlog[i + 1].day = runlog[i].day)
                    => runlog[i].marked \subseteq runlog[i + 1].marked

(* C10: a source whose emitted paths hold a denylisted name is replaced by *)
(* the error record, has no entry in the written manifest and no copied    *)
(* file; every other gated source keeps the entries it emitted; the run    *)
(* goes on to its end.                                                     *)
C10_ContaminatedSourceDropped ==
    /\ "validate" \in run.done =>
          \A s \in GatedSources :
             IF Contaminated(run.marked, s)
             THEN /\ data_sources[s] = ErrorRecord
                  /\ "manifest" \in run.done =>
                        s \notin DOMAIN manifestFiles[week_id].data_sources
                  /\ PathsOfSource(run.copied, s) = {}
             ELSE /\ data_sources[s].kind = "files"
                  /\ {e.path : e \in data_sources[s].files} = PathsOfSource(run.marked, s)
    /\ \A i \in DOMAIN runlog :
          runlog[i].dropped # {} => runlog[i].outcome = "success"

C10_Witness ==
    \E i \in DOMAIN runlog :
        /\ runlog[i].outcome = "success"
        /\ runlog[i].dropped = {"copilot_logs"}
        /\ {<<"copilot_logs", L1>>, <<"copilot_logs", L2>>} \subseteq runlog[i].marked
        /\ PathsOfSource(runlog[i].copied, "exclusive_content") # {}

(* C11: create_compilation copies an entry only if it has no error field, *)
(* its status is new_or_changed or processed and its source path differs   *)
(* from its destination path; a failed entry is never copied and is in no  *)
(* manifest, in memory or written.                                         *)
ManifestPathsOf(m, s) ==
    IF s \in DOMAIN m.data_sources
    THEN {c.original_path : c \in m.data_sources[s].files} ELSE {}

C11_CopyOnlyEligible ==
    pc # "idle" =>
       \A s \in DOMAIN data_sources :
          /\ \A p \in PathsOfSource(run.copied, s) :
                /\ p # Dst(s, p)
                /\ \E e \in data_sources[s].files :
                      /\ e.path = p
                      /\ ~e.error
                      /\ e.status \in {"new_or_changed", "processed"}
          /\ \A e \in data_sources[s].files :
                e.status = "failed" =>
                   /\ e.error
                   /\ e.path \notin PathsOfSource(run.copied, s)
                   /\ e.path \notin ManifestPathsOf(manifest, s)
                   /\ "manifest" \in run.done =>
                         e.path \notin ManifestPathsOf(manifestFiles[week_id], s)

C11_Witness ==
    /\ "manifest" \in run.done
    /\ \E e \in data_sources["objectives_sync"].files : e.status = "failed"
    /\ \E e \in data_sources["exclusive_content"].files :
          e.path = Dst("exclusive_content", e.path)
    /\ PathsOfSource(run.copied, "exclusive_content") # {}
    /\ PathsOfSource(run.copied, "objectives_sync") # {}

(* C12: a run in which shutil.copy2 raised on one file still produces the  *)
(* manifest, the checksum and the tracking row and ends successfully.      *)
C12_CopyErrorSkipsOneFile ==
    \A i \in DOMAIN runlog :
        (runlog[i].failedAt = "copy" /\ runlog[i].outcome # "killed")
           => /\ runlog[i].outcome = "success"
              /\ {"manifest", "checksum", "db"} \subseteq runlog[i].done

(* C13: two builds of the same files with the same content, listed in      *)
(* different orders, have the same bundle checksum.                        *)
C13_ChecksumOrderIndependent ==
    \A i \in DOMAIN runlog : \A j \in DOMAIN runlog :
        Range(runlog[i].order) = Range(runlog[j].order)
           => runlog[i].checksum = runlog[j].checksum

(* C14: once a run has written week-<id>/manifest.json, no later step of   *)
(* any run changes its content.                                            *)
C14_ManifestWrittenOnce ==
    [][\A w \in DOMAIN manifestFiles \cap DOMAIN manifestFiles' :
          /\ manifestFiles'[w] = manifestFiles[w]
          /\ fs'[ManifestPath(w)] = fs[ManifestPath(w)]]_vars

(* C15: the compilations table holds at most one row per week_id; after    *)
(* the tracking-row write the row of the current week holds this run's     *)
(* date, file count, total size, checksum and manifest; the write leaves   *)
(* the rows of other weeks as they were.                                   *)
C15_RowOfThisRun ==
    /\ \A r1 \in dbRows : \A r2 \in dbRows : r1.week_id = r2.week_id => r1 = r2
    /\ (pc # "idle" /\ "db" \in run.done) =>
          \E r \in dbRows :
             /\ r.week_id = WeekOf(run.day)
             /\ r.compilation_date = run.day
             /\ r.files_processed = Cardinality(run.copied)
             /\ r.total_size_bytes = totals.size
             /\ r.checksum = checksum
             /\ r.metadata = manifest

C15_OneRowPerRun ==
    /\ []C15_RowOfThisRun
    /\ [][pc = "db" => {r \in dbRows : r.week_id # week_id}
                          = {r \in dbRows' : r.week_id # week_id}]_vars

C15_Witness ==
    /\ pc = "audit"
    /\ Len(runlog) = 2
    /\ runlog[1].outcome = "success"
    /\ runlog[2].outcome = "success"
    /\ runlog[1].day # now
    /\ runlog[2].day = now
    /\ Cardinality(dbRows) = 2

(* C16: when cleanup_old_compilations has finished, exactly the runs dated *)
(* strictly before (run date - 12 weeks) have lost their row and their     *)
(* bundle directory; a run dated at the cutoff or later keeps both.        *)
Cutoff == now - 7 * WEEKS_TO_RETAIN
HasRow(w) == \E r \in dbRows : r.week_id = w

RecordedDays(w) ==
    {runlog[i].day : i \in {j \in DOMAIN runlog : /\ runlog[j].outcome = "success"
                                                   /\ WeekOf(runlog[j].day) = w}}
        \cup (IF w = week_id THEN {now} ELSE {})
RecordedDate(w) == CHOOSE d \in RecordedDays(w) : \A x \in RecordedDays(w) : x <= d

C16_PruneStrictlyOlder ==
    (pc = "cleanup_loop" /\ old_compilations = <<>>)
       => /\ \A r \in dbRows : r.compilation_date >= Cutoff
          /\ \A w \in {w \in 0 .. week_id : RecordedDays(w) # {}} :
                IF RecordedDate(w) < Cutoff
                THEN ~HasRow(w) /\ BundleFiles(fs, w) = {}
                ELSE /\ \E r \in dbRows : r.week_id = w /\ r.compilation_date = RecordedDate(w)
                     /\ ManifestPath(w) \in DOMAIN fs

C16_Witness ==
    /\ pc = "cleanup_loop"
    /\ old_compilations = <<>>
    /\ Len(runlog) = 2
    /\ runlog[1].outcome = "success" /\ runlog[1].day = Cutoff - 1
    /\ runlog[2].outcome = "success" /\ runlog[2].day = Cutoff + 1
    /\ ~HasRow(WeekOf(runlog[1].day))
    /\ HasRow(WeekOf(runlog[2].day))

(* C17: a step that deletes the row of a week finds no file of that week's *)
(* bundle directory on disk, also after a failed removal or a kill.        *)
C17_RowDeletedAfterDirectory ==
    [][\A r \in dbRows :
          (\A x \in dbRows' : x.week_id # r.week_id)
             => (BundleFiles(fs, r.week_id) = {} /\ BundleFiles(fs', r.week_id) = {})]_vars

C17_Witness ==
    /\ pc = "idle"
    /\ Len(runlog) = 2
    /\ runlog[1].outcome = "success"
    /\ runlog[2].outcome = "failed"
    /\ runlog[2].failedAt = "cleanup_rmtree"
    /\ fs[DbPath].c = Gen(runNo, 4)
    /\ ~HasRow(0)
    /\ BundleFiles(fs, 0) = {}
    /\ HasRow(WeekOf(runlog[1].day))
    /\ BundleFiles(fs, WeekOf(runlog[1].day)) # {}
    /\ ManifestPath(WeekOf(runlog[1].day)) \notin DOMAIN fs

(* C18: a run in which the removal of a bundle directory failed still ends *)
(* with the success summary.                                               *)
C18_PruneFailureNotFatal ==
    \A i \in DOMAIN runlog :
        runlog[i].failedAt = "cleanup_rmtree" => runlog[i].outcome = "success"

(* C19: a run started with a tenant identifier other than the configured   *)
(* one ends at once with exit code 1, and the step leaves the tracking     *)
(* store, the bundle directories, the checkpoint files and every other     *)
(* file, the objectives files included, as they were.                      *)
C19_DeniedRuns ==
    \A i \in DOMAIN runlog :
        runlog[i].space # FRAMEWORK_SPACE
           => /\ runlog[i].outcome = "denied"
              /\ runlog[i].done = {}
              /\ runlog[i].end = runlog[i].start

C19_DenialHasNoSideEffect ==
    /\ []C19_DeniedRuns
    /\ [][(pc = "idle" /\ runNo' # runNo /\ run'.space # FRAMEWORK_SPACE)
             => (pc' = "idle" /\ UNCHANGED disk)]_vars

C19_Witness ==
    /\ Len(runlog) = 2
    /\ runlog[1].outcome = "success"
    /\ runlog[2].outcome = "denied"
    /\ ckptFile.files # EmptyMap
    /\ dbRows # {}

(* C20: a run that ended with the success summary left the checkpoint file *)
(* equal to its in-progress checkpoint.                                    *)
C20_SuccessMeansCheckpointAdvanced ==
    \A i \in DOMAIN runlog :
        runlog[i].outcome = "success"
           => /\ runlog[i].end.shape = "ok"
              /\ runlog[i].end.files = runlog[i].inprogress
              /\ runlog[i].end.timestamp = runlog[i].day

(* C21: a run that was denied or in which a stage raised exits with 1 and  *)
(* prints no summary; every other completed run exits with 0 after         *)
(* printing the summary, exactly once.                                     *)
C21_ExitCodes ==
    \A i \in DOMAIN runlog :
        LET r == runlog[i]
        IN  /\ r.outcome \in {"denied", "failed"} => (r.exit = 1 /\ r.printed = {})
            /\ r.outcome = "success"
                  => /\ r.exit = 0
                     /\ r.failedAt = "none"
                     /\ \E d \in r.printed :
                           /\ r.printed = {d}
                           /\ d.status = "success"
                           /\ d.week_id = WeekOf(r.day)
                           /\ d.compilation_dir = BundleDir(WeekOf(r.day))
                           /\ d.space_verified = FRAMEWORK_SPACE
            /\ r.printed # {} => r.exit = 0

C21_Witness ==
    /\ Len(runlog) = 2
    /\ runlog[1].outcome = "success"
    /\ runlog[1].exit = 0
    /\ runlog[2].outcome = "failed"
    /\ runlog[2].failedAt = "cleanup_rmtree"
    /\ runlog[2].exit = 1

(* C22: a candidate that cannot be read is never listed with status       *)
(* new_or_changed, and no run fails because of it.                         *)
C22_UnreadableFileIsRecoverable ==
    /\ pc # "idle" =>
          \A s \in DOMAIN data_sources : \A e \in data_sources[s].files :
             ~Readable(fs, e.path) => e.status = "failed"
    /\ \A i \in DOMAIN runlog : runlog[i].outcome # "failed"

(* C23: within one run a file is marked by at most one source and copied   *)
(* at most once.                                                           *)
C23_AtMostOnceInclusion ==
    /\ \A m1 \in run.marked : \A m2 \in run.marked : m1[2] = m2[2] => m1 = m2
    /\ \A m1 \in run.copied : \A m2 \in run.copied : m1[2] = m2[2] => m1 = m2

(* C24: _synchronize_objectives leaves a record that has a spaceName field *)
(* untouched (content and modification time), and every record that parses *)
(* has the field after the step; so a second sync writes nothing.          *)
C24_SyncIsIdempotent ==
    [][pc = "sync_objectives" =>
          \A p \in ObjectivesFiles(fs) :
             /\ HasSpaceName(fs[p].c) => fs'[p] = fs[p]
             /\ ValidJson(fs'[p].c) => HasSpaceName(fs'[p].c)
             /\ ~ValidJson(fs[p].c) => fs'[p] = fs[p]]_vars

C24_Witness ==
    /\ pc = "validate"
    /\ runlog # <<>>
    /\ runlog[1].outcome = "success"
    /\ O1 \in DOMAIN fs
    /\ HasSpaceName(fs[O1].c)
    /\ fs[O1].mt < now

(* C25: after objectives sync every record that does not parse is listed   *)
(* once with status failed and an error field, every other record once     *)
(* with status processed, and the step is followed by the validation step. *)
C25_Entries ==
    pc = "validate" =>
       \A p \in ObjectivesFiles(fs) :
          LET es == {e \in data_sources["objectives_sync"].files : e.path = p}
          IN  /\ Cardinality(es) = 1
              /\ \A e \in es :
                    IF ValidJson(fs[p].c)
                    THEN e.status = "processed" /\ ~e.error
                    ELSE e.status = "failed" /\ e.error

C25_MalformedRecordReported ==
    /\ []C25_Entries
    /\ [][pc = "sync_objectives" => pc' = "validate"]_vars

C25_Witness ==
    /\ pc = "cleanup_loop"
    /\ \E e \in data_sources["objectives_sync"].files :
          e.path = O2 /\ e.status = "failed"
    /\ \E e \in data_sources["objectives_sync"].files :
          e.path = O1 /\ e.status = "processed"
    /\ <<"objectives_sync", O1>> \in run.copied
    /\ <<"objectives_sync", O2>> \notin run.copied

(* C26: a run that starts from an empty checkpoint with exactly one log in *)
(* the 7-day window holding the marker lists it, copies exactly that file  *)
(* under copilot_logs, writes files_count 1 and persists its hash; the     *)
(* next run, with nothing edited and the log still in the window, reports  *)
(* files_skipped 1 and writes files_count 0.                               *)
LogsOf(r) == PathsOfSource(r.marked, "copilot_logs")
ManifestCount(s) == manifestFiles[week_id].data_sources[s].files_count

C26_FirstRun ==
    (/\ pc # "idle"
     /\ run.start.files = EmptyMap
     /\ Cardinality(LogCandidates(fs, now)) = 1
     /\ "copilot_logs" \notin run.dropped)
       => /\ ("copilot_logs" \in run.done /\ "validate" \notin run.done)
                => {e.path : e \in data_sources["copilot_logs"].files}
                      = LogCandidates(fs, now)
          /\ "manifest" \in run.done
                => /\ ManifestCount("copilot_logs") = 1
                   /\ PathsOfSource(run.copied, "copilot_logs") = LogCandidates(fs, now)
          /\ pc \in AfterSave
                => \A l \in LogCandidates(fs, now) :
                      /\ l \in DOMAIN ckptFile.files
                      /\ ckptFile.files[l] = calculate_file_checksum(fs, l)

C26_SecondRun ==
    (/\ pc # "idle"
     /\ runlog # <<>>
     /\ Last.outcome = "success"
     /\ Last.start.files = EmptyMap
     /\ Cardinality(LogsOf(Last)) = 1
     /\ run.changedBefore = {}
     /\ LogsOf(Last) \subseteq LogCandidates(fs, now))
       => /\ ("copilot_logs" \in run.done /\ "validate" \notin run.done)
                => /\ data_sources["copilot_logs"].files_skipped = 1
                   /\ data_sources["copilot_logs"].files = {}
          /\ "manifest" \in run.done => ManifestCount("copilot_logs") = 0

C27_AuditHoldsEveryEvent ==
    (pc # "idle" /\ "audit" \in run.done)
       => /\ auditFiles[AuditPath(week_id, now)].operations = audit_log
          /\ Len(audit_log) = 2
          /\ audit_log[1].action = "access_validation"
          /\ audit_log[2].action = "compilation_operation"
          /\ audit_log[2].result = "data_collection"

C27_Witness ==
    /\ pc = "cleanup_loop"
    /\ "audit" \in run.done
    /\ Len(auditFiles[AuditPath(week_id, now)].operations) = 2
    /\ audit_log[2].files_processed > 0

(* C28: for each checkpoint-gated source, every surviving candidate is     *)
(* either listed once with status new_or_changed or counted in             *)
(* files_skipped: len(files) + files_skipped is the number of candidates.  *)
CandidatesOf(s) ==
    CASE s = "copilot_logs" -> LogCandidates(fs, now)
      [] s = "conversation_data" -> ConversationCandidates(fs)
      [] s = "framework_configs" -> ConfigCandidates(fs)
      [] OTHER -> ExclusiveCandidates(fs)

C28_CandidatesAccounted ==
    \A s \in GatedSources :
       (pc # "idle" /\ s \in run.done /\ "validate" \notin run.done)
          => LET d == data_sources[s]
                 paths == {e.path : e \in d.files}
             IN  /\ d.kind = "files"
                 /\ paths \subseteq CandidatesOf(s)
                 /\ Cardinality(paths) = Cardinality(d.files)
                 /\ \A e \in d.files : e.status = "new_or_changed"
                 /\ Cardinality(d.files) + d.files_skipped = Cardinality(CandidatesOf(s))
                 /\ \A p \in CandidatesOf(s) \ paths :
                       \E c \in run.calls : c.path = p /\ c.res = "false"

C28_Witness ==
    /\ pc = "sync_objectives"
    /\ data_sources["copilot_logs"].files_skipped = 1
    /\ data_sources["exclusive_content"].files_skipped >= 1
    /\ data_sources["exclusive_content"].files # {}

(* C29: no checkpoint-gated source lists a readable file that does not     *)
(* hold the tenant marker.                                                 *)
C29_EverySourceSniffs ==
    pc # "idle" =>
       \A s \in GatedSources : \A e \in data_sources[s].files :
          Readable(fs, e.path) => HasMarker(fs[e.path].c)

(* C30: a conversation file that cannot be read still reaches the          *)
(* checkpoint gate, a log file that cannot be read never does.             *)
C30_ReadErrorDefaults ==
    /\ (pc # "idle" /\ "conversation_data" \in run.done) =>
          \A p \in {q \in DOMAIN fs : Len(q) = 1 /\ q[1] \in ConversationGlob} :
             ~Readable(fs, p) =>
                \E c \in run.calls : c.path = p /\ c.cur = ChecksumFailed
    /\ \A c \in AllCalls : c.path[1] = "logs" => c.cur # ChecksumFailed
    /\ pc # "idle" =>
          \A e \in data_sources["copilot_logs"].files : Readable(fs, e.path)

C30_Witness ==
    /\ pc = "collect_configs"
    /\ ~Readable(fs, L1)
    /\ ~Readable(fs, V1)
    /\ \E c \in run.calls : c.path = V1 /\ c.cur = ChecksumFailed
    /\ data_sources["copilot_logs"].files = {}
    /\ data_sources["copilot_logs"].files_skipped = 0

(* C31: every path in the checkpoint persisted by a successful run was    *)
(* copied into that run's bundle and is listed in its written manifest.    *)
C31_CheckpointedMeansBundled ==
    pc \in AfterSave =>
       \A p \in DOMAIN ckptFile.files :
          /\ p \in PathsOf(run.copied)
          /\ \E s \in DOMAIN manifestFiles[week_id].data_sources :
                p \in ManifestPathsOf(manifestFiles[week_id], s)

(* C32: of two consecutive successful runs with no file edited in between, *)
(* the later one marks no input file that the earlier one marked or        *)
(* skipped.                                                                *)
C32_SkippedStaysSkipped ==
    (/\ Len(runlog) = 2
     /\ runlog[1].outcome = "success"
     /\ runlog[2].outcome = "success"
     /\ runlog[2].changedBefore = {})
        => \A c \in runlog[1].calls :
              c.path \in UserFiles => c.path \notin PathsOf(runlog[2].marked)

(* C33: once the manifest is written, the files in each per-source         *)
(* subdirectory of the bundle are exactly the compiled paths the manifest  *)
(* lists for that source, one entry per file.                              *)
SourceDirFiles(w, s) == {p \in DOMAIN fs : Under(p, BundleDir(w) \o <<s>>)}
ListedFiles(w, s) ==
    IF s \in DOMAIN manifestFiles[w].data_sources
    THEN manifestFiles[w].data_sources[s].files ELSE {}

C33_BundleMatchesManifest ==
    (pc # "idle" /\ "manifest" \in run.done) =>
       \A s \in Range(SourceNames) :
          /\ SourceDirFiles(week_id, s)
                = {BundleDir(week_id) \o e.compiled_path : e \in ListedFiles(week_id, s)}
          /\ Cardinality(SourceDirFiles(week_id, s)) = Cardinality(ListedFiles(week_id, s))

(* C34: the tracking row's files_processed is the sum of files_count over  *)
(* the manifest's data sources, its total_size_bytes the sum of their      *)
(* total_size, and each files_count is the length of the source's list.    *)
RECURSIVE SumFilesCount(_, _)
SumFilesCount(ds, names) ==
    IF names = {} THEN 0
    ELSE LET s == CHOOSE x \in names : TRUE
         IN  ds[s].files_count + SumFilesCount(ds, names \ {s})

RECURSIVE SumTotalSize(_, _)
SumTotalSize(ds, names) ==
    IF names = {} THEN 0
    ELSE LET s == CHOOSE x \in names : TRUE
         IN  ds[s].total_size + SumTotalSize(ds, names \ {s})

C34_RowMatchesManifest ==
    (pc # "idle" /\ "db" \in run.done) =>
       LET ds == manifestFiles[week_id].data_sources
       IN  /\ \E r \in dbRows :
                /\ r.week_id = week_id
                /\ r.metadata = manifestFiles[week_id]
                /\ r.files_processed = SumFilesCount(ds, DOMAIN ds)
                /\ r.total_size_bytes = SumTotalSize(ds, DOMAIN ds)
           /\ \A s \in DOMAIN ds :
                /\ ds[s].files_count = Cardinality(ds[s].files)
                /\ ds[s].total_size = SumSizes(ds[s].files)

C34_Witness ==
    /\ pc = "audit"
    /\ \E e \in data_sources["objectives_sync"].files : e.status = "failed"
    /\ \E r \in dbRows : r.week_id = week_id /\ r.files_processed >= 2
    /\ Cardinality({s \in DOMAIN manifest.data_sources :
                       manifest.data_sources[s].files_count > 0}) >= 2

(* C35: a run in which the exclusivity validation replaced a source by the *)
(* error record does not write a manifest with exclusivity_verified true.  *)
C35_VerifiedOnlyIfAllPassed ==
    (pc # "idle" /\ "manifest" \in run.done /\ run.dropped # {})
       => ~manifestFiles[week_id].exclusivity_verified

(* C36: the files_processed of the printed summary equals the              *)
(* files_processed of the run's tracking row, the number of copied files.  *)
C36_SummaryCountsCopies ==
    (pc = "idle" /\ runlog # <<>> /\ Last.outcome = "success")
       => \A d \in Last.printed :
             \E r \in dbRows :
                /\ r.week_id = d.week_id
                /\ r.files_processed = Cardinality(Last.copied)
                /\ d.files_processed = r.files_processed

(* C37: cleanup_old_compilations never selects or removes the row or the   *)
(* bundle directory of the run that invokes it; both exist when the run    *)
(* ends.                                                                   *)
C37_Kept ==
    /\ pc \in {"cleanup_loop", "cleanup_row"} =>
          /\ \A i \in DOMAIN old_compilations : old_compilations[i] # week_id
          /\ HasRow(week_id)
          /\ ManifestPath(week_id) \in DOMAIN fs
    /\ (pc = "idle" /\ runlog # <<>> /\ Last.outcome = "success") =>
          /\ HasRow(WeekOf(Last.day))
          /\ ManifestPath(WeekOf(Last.day)) \in DOMAIN fs

C37_CurrentRunSurvivesPrune ==
    /\ []C37_Kept
    /\ [][(pc \in {"cleanup_loop", "cleanup_row"}) =>
             ((\A r \in dbRows : r.week_id = week_id => r \in dbRows')
              /\ (BundleFiles(fs, week_id) \subseteq BundleFiles(fs', week_id)))]_vars

C37_Witness ==
    /\ pc = "idle"
    /\ Len(runlog) = 2
    /\ runlog[1].outcome = "success"
    /\ runlog[2].outcome = "success"
    /\ ~HasRow(WeekOf(runlog[1].day))
    /\ BundleFiles(fs, WeekOf(runlog[1].day)) = {}
    /\ HasRow(WeekOf(runlog[2].day))
    /\ BundleFiles(fs, WeekOf(runlog[2].day)) # {}

(* C39: no step of a run changes the checkpoint loaded at its start; a     *)
(* call of _should_process_file that returns False leaves the in-progress  *)
(* checkpoint as it was, and a call that returns True changes only the     *)
(* entry of the queried path.                                              *)
C39_Calls ==
    \A c \in AllCalls :
       /\ c.res = "false" => c.after = c.before
       /\ c.res = "true" =>
             /\ DOMAIN c.after = DOMAIN c.before \cup {c.path}
             /\ \A q \in DOMAIN c.before \ {c.path} : c.after[q] = c.before[q]

C39_GateFrame ==
    /\ []C39_Calls
    /\ [][(pc # "idle" /\ pc' # "idle") => checkpoint' = checkpoint]_vars

C39_Witness ==
    /\ pc = "sync_objectives"
    /\ run.start.shape = "ok"
    /\ checkpoint.files # EmptyMap
    /\ \E c \in run.calls : c.res = "false" /\ c.before # EmptyMap
    /\ \E c \in run.calls : c.res = "true" /\ c.before # EmptyMap

(* C38: verify_jsons.main handles the files in order; a file has a backup *)
(* and an audit line only after it and every file before it passed         *)
(* validation; when a file fails, the process exits with 1 and no file     *)
(* from the first failing one on is backed up; a backup, once made, stays. *)
FailingFiles == {k \in DOMAIN json_files : json_files[k] # "valid"}
FirstFailing == CHOOSE k \in FailingFiles : \A j \in FailingFiles : k <= j

C38_Backups ==
    /\ \A k \in backups :
          /\ k \in DOMAIN json_files
          /\ \A j \in 1 .. k : json_files[j] = "valid"
          /\ \A j \in 1 .. k - 1 : j \in backups
          /\ k < jf \/ (k = jf /\ vpc = "log_audit")
    /\ \A i \in DOMAIN audit_lines :
          audit_lines[i].kind = "backed_up"
             => (audit_lines[i].file = i /\ i \in backups)
    /\ (vpc = "exited" /\ FailingFiles # {}) =>
          /\ exit_code = 1
          /\ backups \subseteq 1 .. FirstFailing - 1
          /\ jf = FirstFailing => backups = 1 .. FirstFailing - 1
    /\ (vpc = "exited" /\ exit_code = 0) =>
          (FailingFiles = {} /\ backups = DOMAIN json_files)

C38_ValidateBeforeBackup ==
    /\ []C38_Backups
    /\ [][backups \subseteq backups']_vars

C38_Witness ==
    /\ vpc = "exited"
    /\ exit_code = 1
    /\ json_files = <<"valid", "invalid", "valid">>
    /\ jf = 2
    /\ backups = {1}
    /\ Len(audit_lines) = 1

====
